---- MODULE Spec2Model ----
(***************************************************************************)
(* A model of lambda_function.py: the LINE webhook entry point             *)
(* (lambda_handler), the per-event handler (handle_message) and the two    *)
(* DynamoDB tables (chat_log, user_info) it reads and writes.              *)
(*                                                                         *)
(* Short texts (message text, display names) are sequences of one-         *)
(* character strings.  Long texts (model completions, reply texts) are     *)
(* sequences of runs [ch, n], "the character ch repeated n times", so that *)
(* the 5000-character reply limit keeps its value.                         *)
(***************************************************************************)
EXTENDS Integers, Sequences, FiniteSets, TLC

\* ------------------------------------------------------------------ bounds
MaxInvocations == 1
MaxRuns == 2

\* ------------------------------------------------------- program constants
TENANT_ID == 0
REPLY_LIMIT == 5000
HISTORY_LIMIT == 20

None == "None"

Min(a, b) == IF a < b THEN a ELSE b

\* ------------------------------------------------------------- short texts
Whitespace == {" "}

StartsWith(s, t) == Len(t) <= Len(s) /\ SubSeq(s, 1, Len(t)) = t

\* Python: t in s
Contains(s, t) == \E i \in 1..(Len(s) - Len(t) + 1) : SubSeq(s, i, i + Len(t) - 1) = t

\* Python: s.replace(old, "") for a non-empty old: the leftmost occurrences,
\* non-overlapping, found in one scan of the original text.
RECURSIVE Replace(_, _)
Replace(s, old) ==
    IF s = <<>> THEN <<>>
    ELSE IF StartsWith(s, old) THEN Replace(SubSeq(s, Len(old) + 1, Len(s)), old)
    ELSE <<Head(s)>> \o Replace(Tail(s), old)

RECURSIVE LStrip(_)
LStrip(s) == IF s # <<>> /\ Head(s) \in Whitespace THEN LStrip(Tail(s)) ELSE s

RECURSIVE RStrip(_)
RStrip(s) ==
    IF s # <<>> /\ s[Len(s)] \in Whitespace THEN RStrip(SubSeq(s, 1, Len(s) - 1)) ELSE s

\* Python: s.strip()
Strip(s) == RStrip(LStrip(s))

\* f"@{bot_name}"
MentionToken(bot_name) == <<"@">> \o bot_name

\* -------------------------------------------------------------- long texts
Run(c, k) == [ch |-> c, n |-> k]

RECURSIVE RunsLen(_)
RunsLen(t) == IF t = <<>> THEN 0 ELSE Head(t).n + RunsLen(Tail(t))

\* Python: t[:k]
RECURSIVE RunsTake(_, _)
RunsTake(t, k) ==
    IF t = <<>> \/ k <= 0 THEN <<>>
    ELSE IF Head(t).n <= k THEN <<Head(t)>> \o RunsTake(Tail(t), k - Head(t).n)
    ELSE <<Run(Head(t).ch, k)>>

RECURSIVE RunsLStrip(_)
RunsLStrip(t) == IF t # <<>> /\ Head(t).ch \in Whitespace THEN RunsLStrip(Tail(t)) ELSE t

RECURSIVE RunsRStrip(_)
RunsRStrip(t) ==
    IF t # <<>> /\ t[Len(t)].ch \in Whitespace
    THEN RunsRStrip(SubSeq(t, 1, Len(t) - 1))
    ELSE t

\* Python: t.strip()
RunsStrip(t) == RunsRStrip(RunsLStrip(t))

\* t is the text u cut after some number of characters
RunsIsPrefix(t, u) ==
    /\ Len(t) <= Len(u)
    /\ \A i \in 1..Len(t) :
        /\ t[i].ch = u[i].ch
        /\ t[i].n > 0
        /\ IF i < Len(t) THEN t[i].n = u[i].n ELSE t[i].n <= u[i].n

\* ------------------------------------------------------------ input sets
Procs == {1, 2}
SeqProcs == {1}

Users == {"U1", "U2"}
GroupIds == {"G1"}
RoomIds == {"R1"}

\* line_bot_api.get_bot_info().display_name
BotName == <<"b">>

\* profile.display_name of a sender
ProfileNames == {<<"A">>}
Unknown == <<"U", "n", "k", "n", "o", "w", "n">>

\* event.source as the SDK builds it: a user source carries a user id, a group
\* source a group id, a room source a room id; in groups and rooms the sender
\* id may be missing.
Sources(users) ==
    [type : {"user"}, user_id : users, group_id : {None}, room_id : {None}]
    \cup [type : {"group"}, user_id : users \cup {None}, group_id : GroupIds, room_id : {None}]
    \cup [type : {"room"}, user_id : users \cup {None}, group_id : {None}, room_id : RoomIds]

\* message texts of the orchestration runs
SampleTexts ==
    { <<"h">>,
      <<"@", "b", " ", "h">>,
      <<"@", "@", "b", "b">> }

\* response.choices[0].message.content of the orchestration runs
Completions ==
    { <<Run(" ", 1), Run("a", 4999), Run("b", 1), Run(" ", 2)>>,
      <<Run("a", 5000), Run("b", 1000)>> }

PersonaText == <<"persona">>

\* short_fallback's text, one run per character
FallbackText ==
    << Run("go", 1), Run("me", 1), Run("n", 1), Run("na", 1), Run("sa", 1), Run("i", 1),
       Run(",", 1), Run("ta", 1), Run("da", 1), Run("i", 1), Run("ma", 1), Run("suko", 1),
       Run("shi", 1), Run("to", 1), Run("ra", 1), Run("bu", 1), Run("ru", 1), Run("ga", 1),
       Run("hatsu", 1), Run("sei", 1), Run("shi", 1), Run("te", 1), Run("i", 1), Run("ma", 1),
       Run("su", 1), Run(".", 1) >>

\* what a call of the LINE client, of the OpenAI client, of a DynamoDB table
\* can end in
LineOutcomes == {"ok", "LineBotApiError", "ValueError", "Exception"}
OpenAIOutcomes == {"ok", "OpenAIError", "ValueError", "Exception"}
StoreOutcomes == {"ok", "error"}

\* the requests the runtime hands to lambda_handler: the body may be base64
\* encoded, and an encoded body may fail to decode to UTF-8 text
Requests ==
    {r \in [isBase64Encoded : BOOLEAN, decodes : BOOLEAN, signature_valid : BOOLEAN] :
        ~r.isBase64Encoded => r.decodes}

\* The worlds the handler is run in.  One invocation at a time, with every
\* request, text, completion and failure:
FlowEnv ==
    [requests |-> Requests, sources |-> Sources({"U1"}), texts |-> SampleTexts,
     names |-> [u \in Users \cup {None} |-> ProfileNames],
     completions |-> Completions, line |-> LineOutcomes,
     reply |-> LineOutcomes, openai |-> OpenAIOutcomes, store |-> StoreOutcomes,
     ticks |-> {1}, max |-> MaxInvocations]

\* Invocations that overlap, which may read the same millisecond: two members
\* of one group, a direct chat and a room, one text, one completion, each
\* sender with a display name of their own, a reply API that can reject:
ConcEnv ==
    [requests |-> {[isBase64Encoded |-> FALSE, decodes |-> TRUE, signature_valid |-> TRUE]},
     sources |-> {src \in Sources(Users) :
                     /\ src.user_id # None
                     /\ src.type # "group" => src.user_id = "U1"},
     texts |-> {<<"@", "b", " ", "h">>},
     names |-> [u \in Users \cup {None} |-> IF u = "U2" THEN {<<"B">>} ELSE {<<"A">>}],
     completions |-> {<<Run("a", 1)>>}, line |-> {"ok"}, reply |-> {"ok", "LineBotApiError"},
     openai |-> {"ok", "OpenAIError"}, store |-> {"ok"}, ticks |-> {0, 1},
     max |-> MaxRuns]

\* Invocations that overlap on the user directory: one sender in a direct chat
\* and in a group, whose display name changes between lookups, a message that
\* does not mention the bot, a user_info table that can fail:
UserEnv ==
    [requests |-> {[isBase64Encoded |-> FALSE, decodes |-> TRUE, signature_valid |-> TRUE]},
     sources |-> {src \in Sources({"U1"}) : src.type # "room" /\ src.user_id # None},
     texts |-> {<<"h">>},
     names |-> [u \in Users \cup {None} |-> {<<"A">>, <<"B">>}],
     completions |-> {<<Run("a", 1)>>}, line |-> {"ok"}, reply |-> {"ok"},
     openai |-> {"ok", "OpenAIError"}, store |-> {"ok", "error"}, ticks |-> {1},
     max |-> MaxRuns]

\* ------------------------------------------------------------------ state
VARIABLES
    chat_log,      \* the chat_log table: a set of items, one per (conversation_id, date_ms)
    user_info,     \* the user_info table: a set of items, one per user_id
    written,       \* the items chat_log_tb.put_item has stored, in the order of the calls
    now_ms,        \* the millisecond clock
    invocations,   \* how many times lambda_handler has been invoked
    pc,            \* where each invocation is
    request,       \* the request of each invocation
    event,         \* the message event of each invocation
    locals,        \* handle_message's local variables
    ops,           \* the calls each invocation has made to the three services
    response       \* what lambda_handler returned

vars == <<chat_log, user_info, written, now_ms, invocations, pc, request, event, locals, ops, response>>

Pending == [status |-> "pending", statusCode |-> 0, body |-> ""]
OK200 == [status |-> "returned", statusCode |-> 200, body |-> "OK"]
BAD400 == [status |-> "returned", statusCode |-> 400, body |-> "Bad signature"]
ERR500 == [status |-> "returned", statusCode |-> 500, body |-> "Internal Error"]
Escaped == [status |-> "raised", statusCode |-> 0, body |-> ""]

NoRequest == [isBase64Encoded |-> FALSE, decodes |-> TRUE, signature_valid |-> FALSE]
NoEvent ==
    [source |-> [type |-> None, user_id |-> None, group_id |-> None, room_id |-> None],
     text |-> <<>>, reply_token |-> 0]
NoLocals ==
    [user_message |-> <<>>, user_name |-> <<>>, group_id |-> None, room_id |-> None,
     conversation_id |-> None, history |-> <<>>, ai_resp |-> <<>>, caught |-> None]

Init ==
    /\ chat_log = {}
    /\ user_info = {}
    /\ written = <<>>
    /\ now_ms = 0
    /\ invocations = 0
    /\ pc = [p \in Procs |-> "idle"]
    /\ request = [p \in Procs |-> NoRequest]
    /\ event = [p \in Procs |-> NoEvent]
    /\ locals = [p \in Procs |-> NoLocals]
    /\ ops = [p \in Procs |-> <<>>]
    /\ response = [p \in Procs |-> Pending]

\* ------------------------------------------------------------- the tables
\* Table.put_item: the item replaces the one with the same key
PutTurn(log, item) ==
    {i \in log : ~(i.conversation_id = item.conversation_id /\ i.date_ms = item.date_ms)}
    \cup {item}

\* (mutant) a record that exists is kept
PutUserKeepingFirst(tb, item) ==
    IF \E i \in tb : i.user_id = item.user_id THEN tb ELSE tb \cup {item}

PutUser(tb, item) == {i \in tb : i.user_id # item.user_id} \cup {item}

RECURSIVE NewestFirst(_)
NewestFirst(S) ==
    IF S = {} THEN <<>>
    ELSE LET m == CHOOSE i \in S : \A j \in S : j.date_ms <= i.date_ms
         IN  <<m>> \o NewestFirst(S \ {m})

\* chat_log_tb.query(conversation_id = :cid, Limit=limit, ScanIndexForward=False)
Query(log, cid, limit) ==
    LET all == NewestFirst({i \in log : i.conversation_id = cid})
    IN  SubSeq(all, 1, Min(limit, Len(all)))

Reverse(s) == [i \in 1..Len(s) |-> s[Len(s) + 1 - i]]

\* (mutant) every named turn is prefixed
UserContentAlwaysPrefixed(item) ==
    IF item.user_name # <<>> THEN item.user_name \o <<":", " ">> \o item.user ELSE item.user

\* the user entry of a stored turn
UserContent(item) ==
    IF item.user_name # <<>> /\ item.group_id # None
    THEN item.user_name \o <<":", " ">> \o item.user
    ELSE item.user

RECURSIVE Expand(_)
Expand(items) ==
    IF items = <<>> THEN <<>>
    ELSE << [role |-> "user", content |-> UserContent(Head(items))],
            [role |-> "assistant", content |-> Head(items).assistant] >>
         \o Expand(Tail(items))

\* get_conversation_history when the query succeeds
History(log, cid) == Expand(Reverse(Query(log, cid, HISTORY_LIMIT)))

\* the item save_conversation builds
TurnItem(conversation_id, actual_user_id, group_id, room_id, user_name, user_message, ai_response, date_ms) ==
    [conversation_id |-> conversation_id, date_ms |-> date_ms, user |-> user_message,
     assistant |-> ai_response, user_name |-> user_name, actual_user_id |-> actual_user_id,
     tenant_id |-> TENANT_ID, group_id |-> group_id, room_id |-> room_id]

\* (mutant) the sender id comes first
ConversationIdSenderFirst(group_id, room_id, user_id) ==
    IF user_id # None THEN user_id ELSE IF group_id # None THEN group_id ELSE room_id

\* group_id or room_id or user_id
ConversationId(group_id, room_id, user_id) ==
    IF group_id # None THEN group_id ELSE IF room_id # None THEN room_id ELSE user_id

\* [system persona, *history, new user message]
Messages(user_message, history) ==
    <<[role |-> "system", content |-> PersonaText]>> \o history
    \o <<[role |-> "user", content |-> user_message]>>

\* (mutant) the text is not cut
ReplyTextUncut(text) == text

\* TextSendMessage(text=text[:5000])
ReplyText(text) == RunsTake(text, REPLY_LIMIT)

\* ------------------------------------------------------- the entry point
Events(env) == [source : env.sources, text : env.texts, reply_token : {invocations + 1}]

Append1(p, entry) == [ops EXCEPT ![p] = Append(@, entry)]

\* handle_message's except clauses, and what lambda_handler returns after them
Caught(exc) ==
    CASE exc = "Bot not mentioned" -> [pc |-> "done", response |-> OK200]
      [] exc = "ValueError" -> [pc |-> "done", response |-> ERR500]
      [] exc = "OpenAIError" -> [pc |-> "short_fallback", response |-> Pending]
      [] exc = "LineBotApiError" -> [pc |-> "done", response |-> OK200]
      [] OTHER -> [pc |-> "short_fallback", response |-> Pending]

\* an exception raised inside handle_message's try block
Raise(p, exc, loc) ==
    /\ pc' = [pc EXCEPT ![p] = Caught(exc).pc]
    /\ response' = [response EXCEPT ![p] = Caught(exc).response]
    /\ locals' = [locals EXCEPT ![p] = [loc EXCEPT !.caught = exc]]

\* (mutant) the turn is not persisted before the reply
GotoSkippingPersist(p, next, loc) ==
    /\ pc' = [pc EXCEPT ![p] = IF next = "save_conversation" THEN "send_reply" ELSE next]
    /\ locals' = [locals EXCEPT ![p] = loc]
    /\ UNCHANGED response

\* the try block goes on to the next call
Goto(p, next, loc) ==
    /\ pc' = [pc EXCEPT ![p] = next]
    /\ locals' = [locals EXCEPT ![p] = loc]
    /\ UNCHANGED response

\* handle_message returns normally and lambda_handler answers 200
Return(p, loc) ==
    /\ pc' = [pc EXCEPT ![p] = "done"]
    /\ locals' = [locals EXCEPT ![p] = loc]
    /\ response' = [response EXCEPT ![p] = OK200]

\* (mutant) the signature is not checked
VerdictUnchecked(req) ==
    IF req.isBase64Encoded /\ ~req.decodes THEN "decode_error" ELSE "dispatch"

\* what lambda_handler does with a request before any event is handled
Verdict(req) ==
    CASE req.isBase64Encoded /\ ~req.decodes -> "decode_error"
      [] (req.isBase64Encoded => req.decodes) /\ ~req.signature_valid -> "bad_signature"
      [] OTHER -> "dispatch"

\* (mutant) the exception of a failed store call reaches handle_message
AfterStoreCallRaises(out, next) == IF out = "ok" THEN next ELSE "short_fallback"

\* a store function logs the exception of a failed call and returns: the
\* flow goes on to its next call whatever the call ended in
AfterStoreCall(out, next) == next

\* lambda_handler up to handler.handle, and handle_message up to its try block
lambda_handler(p, env) ==
    /\ pc[p] \in {"idle", "done"}
    /\ invocations < env.max
    /\ invocations' = invocations + 1
    /\ ops' = [ops EXCEPT ![p] = <<>>]
    /\ \E req \in env.requests :
        /\ request' = [request EXCEPT ![p] = req]
        /\ IF Verdict(req) = "decode_error"
           THEN \* base64.b64decode(body).decode("utf-8") raises outside the try
                /\ pc' = [pc EXCEPT ![p] = "done"]
                /\ response' = [response EXCEPT ![p] = Escaped]
                /\ event' = [event EXCEPT ![p] = NoEvent]
                /\ locals' = [locals EXCEPT ![p] = NoLocals]
           ELSE IF Verdict(req) = "bad_signature"
           THEN \* InvalidSignatureError
                /\ pc' = [pc EXCEPT ![p] = "done"]
                /\ response' = [response EXCEPT ![p] = BAD400]
                /\ event' = [event EXCEPT ![p] = NoEvent]
                /\ locals' = [locals EXCEPT ![p] = NoLocals]
           ELSE \E ev \in Events(env) :
                /\ event' = [event EXCEPT ![p] = ev]
                /\ pc' = [pc EXCEPT ![p] = "preprocess_message"]
                /\ response' = [response EXCEPT ![p] = Pending]
                /\ locals' = [locals EXCEPT ![p] =
                       [NoLocals EXCEPT
                           !.group_id = IF ev.source.type = "group" THEN ev.source.group_id ELSE None,
                           !.room_id = IF ev.source.type = "room" THEN ev.source.room_id ELSE None]]
    /\ UNCHANGED <<chat_log, user_info, written, now_ms>>

\* ------------------------------------------------------------ preprocessing
\* (mutant) the text is not trimmed
StripMentionUntrimmed(msg_text, bot_name) == Replace(msg_text, MentionToken(bot_name))

\* the message text a mentioned bot goes on with
StripMention(msg_text, bot_name) == Strip(Replace(msg_text, MentionToken(bot_name)))

\* preprocess_message up to the profile lookup: the mention check of a group
preprocess_message(p, env) ==
    /\ pc[p] = "preprocess_message"
    /\ IF event[p].source.type = "group"
       THEN \E out \in env.line :
            /\ ops' = Append1(p, [op |-> "get_bot_info", out |-> out])
            /\ IF out # "ok" THEN Raise(p, out, locals[p])
               ELSE IF ~Contains(event[p].text, MentionToken(BotName))
               THEN Raise(p, "Bot not mentioned", locals[p])
               ELSE Goto(p, "get_profile",
                         [locals[p] EXCEPT !.user_message = StripMention(event[p].text, BotName)])
       ELSE /\ Goto(p, "get_profile", [locals[p] EXCEPT !.user_message = event[p].text])
            /\ UNCHANGED ops
    /\ UNCHANGED <<chat_log, user_info, written, now_ms, invocations, request, event>>

\* preprocess_message's profile lookup
get_profile(p, env) ==
    /\ pc[p] = "get_profile"
    /\ \E out \in env.line :
        /\ ops' = Append1(p, [op |-> "get_profile", out |-> out])
        /\ CASE out = "ok" ->
                  \E name \in env.names[event[p].source.user_id] :
                      Goto(p, "save_user_info", [locals[p] EXCEPT !.user_name = name])
             [] out = "LineBotApiError" ->
                  Goto(p, "save_user_info", [locals[p] EXCEPT !.user_name = Unknown])
             [] OTHER -> Raise(p, out, locals[p])
    /\ UNCHANGED <<chat_log, user_info, written, now_ms, invocations, request, event>>

\* ------------------------------------------------------------------ stores
save_user_info(p, env) ==
    /\ pc[p] = "save_user_info"
    /\ LET user_id == event[p].source.user_id
           item == [user_id |-> user_id, user_name |-> locals[p].user_name, tenant_id |-> TENANT_ID]
       IN  \E out \in (IF user_id = None THEN {"error"} ELSE env.store) :
            /\ ops' = Append1(p, [op |-> "put_user", item |-> item, out |-> out])
            /\ user_info' = IF out = "ok" THEN PutUser(user_info, item) ELSE user_info
            /\ Goto(p, AfterStoreCall(out, "get_conversation_history"), locals[p])
    /\ UNCHANGED <<chat_log, written, now_ms, invocations, request, event>>

get_conversation_history(p, env) ==
    /\ pc[p] = "get_conversation_history"
    /\ LET cid == ConversationId(locals[p].group_id, locals[p].room_id, event[p].source.user_id)
       IN  \E out \in env.store :
            /\ ops' = Append1(p, [op |-> "query", cid |-> cid, out |-> out])
            /\ Goto(p, AfterStoreCall(out, "get_openai_response"),
                    [locals[p] EXCEPT
                        !.conversation_id = cid,
                        !.history = IF out = "ok" THEN History(chat_log, cid) ELSE <<>>])
    /\ UNCHANGED <<chat_log, user_info, written, now_ms, invocations, request, event>>

save_conversation(p, env) ==
    /\ pc[p] = "save_conversation"
    /\ \E tick \in env.ticks, out \in env.store :
        LET item == TurnItem(locals[p].conversation_id, event[p].source.user_id,
                             locals[p].group_id, locals[p].room_id, locals[p].user_name,
                             locals[p].user_message, locals[p].ai_resp, now_ms + tick)
        IN  /\ now_ms' = now_ms + tick
            /\ ops' = Append1(p, [op |-> "put_turn", item |-> item, out |-> out])
            /\ chat_log' = IF out = "ok" THEN PutTurn(chat_log, item) ELSE chat_log
            /\ written' = IF out = "ok" THEN Append(written, item) ELSE written
            /\ Goto(p, AfterStoreCall(out, "send_reply"), locals[p])
    /\ UNCHANGED <<user_info, invocations, request, event>>

\* --------------------------------------------------------------- generation
\* get_openai_response; the completion call takes more than a millisecond
get_openai_response(p, env) ==
    /\ pc[p] = "get_openai_response"
    /\ \E out \in env.openai :
        /\ ops' = Append1(p, [op |-> "generate", out |-> out,
                              messages |-> Messages(locals[p].user_message, locals[p].history)])
        /\ IF out = "ok"
           THEN \E content \in env.completions :
                    Goto(p, "save_conversation", [locals[p] EXCEPT !.ai_resp = RunsStrip(content)])
           ELSE Raise(p, out, locals[p])
    /\ now_ms' = now_ms + 1
    /\ UNCHANGED <<chat_log, user_info, written, invocations, request, event>>

\* ------------------------------------------------------------------ replies
\* the call send_safe_reply makes to the reply API
send_safe_reply(reply_token, text, out) ==
    [op |-> "reply", token |-> reply_token, text |-> ReplyText(text), intended |-> text, out |-> out]

\* handle_message's send_safe_reply(event.reply_token, ai_resp)
send_reply(p, env) ==
    /\ pc[p] = "send_reply"
    /\ \E out \in env.reply :
        /\ ops' = Append1(p, send_safe_reply(event[p].reply_token, locals[p].ai_resp, out))
        /\ IF out \in {"ok", "LineBotApiError"}
           THEN Return(p, locals[p])
           ELSE Raise(p, out, locals[p])
    /\ UNCHANGED <<chat_log, user_info, written, now_ms, invocations, request, event>>

\* short_fallback, called from an except clause of handle_message
short_fallback(p, env) ==
    /\ pc[p] = "short_fallback"
    /\ \E out \in env.reply :
        /\ ops' = Append1(p, send_safe_reply(event[p].reply_token, FallbackText, out))
        /\ pc' = [pc EXCEPT ![p] = "done"]
        /\ response' = [response EXCEPT ![p] =
               IF out \in {"ok", "LineBotApiError"} THEN OK200 ELSE ERR500]
    /\ UNCHANGED <<chat_log, user_info, written, now_ms, invocations, request, event, locals>>

\* ------------------------------------------------------------ specification
Step(p, env) ==
    \/ lambda_handler(p, env)
    \/ preprocess_message(p, env)
    \/ get_profile(p, env)
    \/ save_user_info(p, env)
    \/ get_conversation_history(p, env)
    \/ get_openai_response(p, env)
    \/ save_conversation(p, env)
    \/ send_reply(p, env)
    \/ short_fallback(p, env)

\* one invocation at a time
Next == \E p \in SeqProcs : Step(p, FlowEnv)

Spec == Init /\ [][Next]_vars

\* invocations that overlap
NextConc == \E p \in Procs : Step(p, ConcEnv)

SpecConc == Init /\ [][NextConc]_vars

\* invocations that overlap on the user directory
NextUsers == \E p \in Procs : Step(p, UserEnv)

SpecUsers == Init /\ [][NextUsers]_vars

\* ------------------------------------------------------------------ claims
Done(p) == pc[p] = "done"

HasOp(p, name) == \E i \in 1..Len(ops[p]) : ops[p][i].op = name

OpsOf(p, name) == SelectSeq(ops[p], LAMBDA e : e.op = name)

Replies(p) == OpsOf(p, "reply")

\* the request was decoded and its signature did not verify
SignatureRejected(p) ==
    /\ pc[p] # "idle"
    /\ request[p].isBase64Encoded => request[p].decodes
    /\ ~request[p].signature_valid

\* C1: when signature validation fails, lambda_handler returns {400, "Bad
\* signature"} and the invocation makes no call at all: no store write, no
\* generator call, no reply and no fallback.
C1_BadSignature ==
    \A p \in Procs :
        SignatureRejected(p) => (Done(p) /\ response[p] = BAD400 /\ ops[p] = <<>>)

C1_Witness ==
    \E p \in Procs :
        /\ SignatureRejected(p)
        /\ request[p].isBase64Encoded
        /\ response[p] = BAD400

NotMentioned(p) ==
    /\ event[p].source.type = "group"
    /\ ~Contains(event[p].text, MentionToken(BotName))

\* C2: a group message whose text lacks "@<bot-display-name>" is skipped: no
\* reply and no fallback, no turn written, no generator call, and the
\* invocation answers 200.
C2_GroupWithoutMentionSkipped ==
    \A p \in Procs :
        NotMentioned(p) =>
            /\ ~HasOp(p, "reply")
            /\ ~HasOp(p, "put_turn")
            /\ ~HasOp(p, "generate")
            /\ Done(p) => response[p] = OK200

\* C3: after a provider error the reply API is called once, with the fixed
\* fallback text and the event's reply token, and the invocation answers 200.
C3_ProviderErrorFallback ==
    \A p \in Procs :
        (Done(p) /\ locals[p].caught = "OpenAIError") =>
            /\ Len(Replies(p)) = 1
            /\ Replies(p)[1].text = FallbackText
            /\ Replies(p)[1].token = event[p].reply_token
            /\ response[p] = OK200

GenerationSucceeded(p) ==
    \E i \in 1..Len(ops[p]) : ops[p][i].op = "generate" /\ ops[p][i].out = "ok"

StoreCallFailed(p, name) ==
    \E i \in 1..Len(ops[p]) : ops[p][i].op = name /\ ops[p][i].out = "error"

C5_ReplyTruncated ==
    \A p \in Procs : \A i \in 1..Len(ops[p]) :
        ops[p][i].op = "reply" =>
            /\ ops[p][i].intended \in {locals[p].ai_resp, FallbackText}
            /\ RunsLen(ops[p][i].text) <= 5000
            /\ RunsIsPrefix(ops[p][i].text, ops[p][i].intended)
            /\ RunsLen(ops[p][i].intended) <= 5000 => ops[p][i].text = ops[p][i].intended
            /\ RunsLen(ops[p][i].intended) > 5000 => RunsLen(ops[p][i].text) = 5000

C5_Witness ==
    \E p \in Procs : \E i \in 1..Len(ops[p]) :
        /\ ops[p][i].op = "reply"
        /\ RunsLen(ops[p][i].intended) = 6000
        /\ ops[p][i].text = <<Run("a", 5000)>>

\* G if present, else R if present, else U
Resolved(source) ==
    CASE source.group_id # None -> source.group_id
      [] source.group_id = None /\ source.room_id # None -> source.room_id
      [] OTHER -> source.user_id

\* C6: the conversation id of the history query and of the persisted turn is
\* the event's group id if present, else its room id if present, else its
\* sender id.
C6_ConversationId ==
    \A p \in Procs : \A i \in 1..Len(ops[p]) :
        /\ ops[p][i].op = "query" => ops[p][i].cid = Resolved(event[p].source)
        /\ ops[p][i].op = "put_turn" =>
              ops[p][i].item.conversation_id = Resolved(event[p].source)

C6_Witness ==
    \E p \in Procs :
        /\ event[p].source.type = "group"
        /\ event[p].source.user_id # None
        /\ \E i \in 1..Len(ops[p]) :
              /\ ops[p][i].op = "put_turn"
              /\ ops[p][i].out = "ok"
              /\ ops[p][i].item.conversation_id = event[p].source.group_id
              /\ ops[p][i].item.actual_user_id = event[p].source.user_id

\* the positions at which tok occurs in s
Occurrences(s, tok) ==
    {i \in 1..(Len(s) - Len(tok) + 1) : SubSeq(s, i, i + Len(tok) - 1) = tok}

\* s without the characters i..i+width-1 for every i of P
RECURSIVE DeleteFrom(_, _, _, _)
DeleteFrom(s, k, P, width) ==
    IF k > Len(s) THEN <<>>
    ELSE IF \E i \in P : i <= k /\ k < i + width THEN DeleteFrom(s, k + 1, P, width)
    ELSE <<s[k]>> \o DeleteFrom(s, k + 1, P, width)

\* r is s with occurrences of tok removed, as many as fit side by side, and
\* then trimmed
IsStrippedRemoval(s, tok, r) ==
    \E P \in SUBSET Occurrences(s, tok) :
        /\ P # {}
        /\ \A i, j \in P : i < j => i + Len(tok) <= j
        /\ \A i \in Occurrences(s, tok) : \E j \in P : j - Len(tok) < i /\ i < j + Len(tok)
        /\ r = Strip(DeleteFrom(s, 1, P, Len(tok)))
        /\ r # <<>> => (r[1] \notin Whitespace /\ r[Len(r)] \notin Whitespace)

Mentioned(p) ==
    /\ event[p].source.type = "group"
    /\ Contains(event[p].text, MentionToken(BotName))

\* the user text of a generator call: its last message
GeneratedFor(e) == e.messages[Len(e.messages)].content

\* C7 as claimed: the user text passed to the generator and persisted is the
\* original text with the mention removed and trimmed, and it no longer
\* contains the mention token.
C7_NoMentionLeft ==
    \A p \in Procs : \A i \in 1..Len(ops[p]) :
        (Mentioned(p) /\ ops[p][i].op = "generate") =>
            /\ IsStrippedRemoval(event[p].text, MentionToken(BotName), GeneratedFor(ops[p][i]))
            /\ ~Contains(GeneratedFor(ops[p][i]), MentionToken(BotName))

\* C7 as amended: for a group message that contains the mention token, the
\* user text passed to the generator and persisted in the turn is the original
\* text with the occurrences of the token found in one left-to-right scan
\* removed and leading/trailing whitespace trimmed (what is left can contain
\* the token again).
C7_MentionStripped ==
    \A p \in Procs : \A i \in 1..Len(ops[p]) :
        /\ (Mentioned(p) /\ ops[p][i].op = "generate") =>
              IsStrippedRemoval(event[p].text, MentionToken(BotName), GeneratedFor(ops[p][i]))
        /\ (Mentioned(p) /\ ops[p][i].op = "put_turn") =>
              /\ ops[p][i].item.user = GeneratedFor(OpsOf(p, "generate")[1])
              /\ IsStrippedRemoval(event[p].text, MentionToken(BotName), ops[p][i].item.user)

C7_Witness ==
    \E p \in Procs :
        /\ Mentioned(p)
        /\ event[p].text = <<"@", "@", "b", "b">>
        /\ HasOp(p, "put_turn")
        /\ GeneratedFor(OpsOf(p, "generate")[1]) = <<"@", "b">>

\* the turns written to a conversation, in the order of the writes
TurnsOf(cid) == SelectSeq(written, LAMBDA item : item.conversation_id = cid)

LastTurns(s, k) == SubSeq(s, Len(s) - Min(k, Len(s)) + 1, Len(s))

\* C8: in every state and for every conversation, a history load returns the
\* messages of the 20 most recent turns written to the conversation (of all of
\* them when fewer were written), oldest first, a user message then an
\* assistant message for each turn.
C8_RoundTrip ==
    \A i \in 1..Len(written) :
        History(chat_log, written[i].conversation_id)
            = Expand(LastTurns(TurnsOf(written[i].conversation_id), 20))

\* an exception left handle_message: a ValueError that is no skip is raised
\* again, and an exception of the fallback's own reply is not caught
EscapedHandler(p) ==
    \/ locals[p].caught = "ValueError"
    \/ /\ locals[p].caught \in {"OpenAIError", "Exception"}
       /\ ops[p] # <<>>
       /\ ops[p][Len(ops[p])].op = "reply"
       /\ ops[p][Len(ops[p])].out \in {"ValueError", "Exception"}

\* C9: every invocation returns one of three responses: {400, "Bad signature"}
\* when signature validation fails, {500, "Internal Error"} exactly when an
\* exception escapes the message handler, {200, "OK"} otherwise.
C9_ThreeResponses ==
    \A p \in Procs :
        Done(p) =>
            /\ response[p] \in {OK200, BAD400, ERR500}
            /\ response[p] = BAD400 <=> ~request[p].signature_valid
            /\ response[p] = ERR500 <=> EscapedHandler(p)

\* C10: an unclassified error raised after preprocessing (from the user save
\* on) never ends the event without a fallback attempt.
C10_UnclassifiedErrorFallback ==
    \A p \in Procs :
        (Done(p) /\ HasOp(p, "put_user") /\ locals[p].caught \in {"ValueError", "Exception"}) =>
            \E i \in 1..Len(ops[p]) :
                ops[p][i].op = "reply" /\ ops[p][i].intended = FallbackText

\* ------------------------------------------------------- claims C11 to C20
IsFallback(e) == e.op = "reply" /\ e.intended = FallbackText

IsPrimary(e) == e.op = "reply" /\ e.intended # FallbackText

\* the event of the invocation was handed to handle_message
Handled(p) == event[p].reply_token # 0

\* C11: a delivery error on the primary reply or on the fallback reply is
\* logged only: the failed call is the last call of the event (no further
\* reply, no fallback), no exception leaves send_safe_reply, and the
\* invocation ends answering 200.
C11_DeliveryErrorLoggedOnly ==
    \A p \in Procs : \A i \in 1..Len(ops[p]) :
        (ops[p][i].op = "reply" /\ ops[p][i].out # "ok") =>
            /\ i = Len(ops[p])
            /\ Done(p)
            /\ response[p] = OK200
            /\ IsPrimary(ops[p][i]) => locals[p].caught = None

LastReply(p) == Replies(p)[Len(Replies(p))]

\* the generated reply was delivered
Replied(p) ==
    /\ locals[p].caught = None
    /\ Replies(p) # <<>>
    /\ IsPrimary(LastReply(p))
    /\ LastReply(p).out = "ok"

\* the mention check skipped the event
Skipped(p) == locals[p].caught = "Bot not mentioned" /\ Replies(p) = <<>>

\* the apology was delivered
FallbackReplied(p) ==
    /\ Replies(p) # <<>>
    /\ IsFallback(LastReply(p))
    /\ LastReply(p).out = "ok"

\* a delivery failed and was logged
SilentFailed(p) ==
    /\ Replies(p) # <<>>
    /\ LastReply(p).out = "LineBotApiError"

TerminalStates(p) ==
    {s \in {"Replied", "Skipped", "FallbackReplied", "SilentFailed"} :
        \/ s = "Replied" /\ Replied(p)
        \/ s = "Skipped" /\ Skipped(p)
        \/ s = "FallbackReplied" /\ FallbackReplied(p)
        \/ s = "SilentFailed" /\ SilentFailed(p)}

\* C12: a handled event never stops half way (while the handler has not
\* returned, its next step can be taken), and when the handler has returned
\* the event is in exactly one of the terminal states Replied, Skipped,
\* FallbackReplied, SilentFailed, with no step of it left to take.
C12_TerminalStates ==
    \A p \in SeqProcs :
        Handled(p) =>
            /\ ~Done(p) => ENABLED Step(p, FlowEnv)
            /\ Done(p) => Cardinality(TerminalStates(p)) = 1

\* the stage of handle_message's try block a call belongs to; the apology is
\* sent from the except clauses, after the try block
Stage(e) ==
    CASE e.op \in {"get_bot_info", "get_profile"} -> 1
      [] e.op = "put_user" -> 2
      [] e.op = "query" -> 3
      [] e.op = "generate" -> 4
      [] e.op = "put_turn" -> 5
      [] IsPrimary(e) -> 6
      [] OTHER -> 7

\* C13: the calls of an event occur in the order preprocess, save user, load
\* history, generate, persist turn, send reply, each at most once; a turn is
\* persisted only after the generator returned successfully, and the generated
\* reply is sent only after the persist call was made, whatever it ended in.
C13_StageOrder ==
    \A p \in Procs : \A j \in 1..Len(ops[p]) :
        /\ \A i \in 1..(j - 1) :
              \/ Stage(ops[p][i]) < Stage(ops[p][j])
              \/ ops[p][i].op = "get_bot_info" /\ ops[p][j].op = "get_profile"
        /\ ops[p][j].op = "put_turn" =>
              \E i \in 1..(j - 1) : ops[p][i].op = "generate" /\ ops[p][i].out = "ok"
        /\ IsPrimary(ops[p][j]) =>
              \E i \in 1..(j - 1) : ops[p][i].op = "put_turn"

C13_Witness ==
    \E p \in Procs :
        /\ Done(p)
        /\ Len(ops[p]) = 7
        /\ \A i \in 1..7 :
              ops[p][i].op = <<"get_bot_info", "get_profile", "put_user", "query",
                               "generate", "put_turn", "reply">>[i]
        /\ ops[p][6].out = "error"
        /\ IsPrimary(ops[p][7])
        /\ ops[p][7].out = "ok"

\* C14: the chat log is append-only: a turn that was written is never
\* overwritten or removed, so every written turn is in the log and a
\* conversation has as many turns as save_conversation has stored for it.
C14_AppendOnly ==
    \A i \in 1..Len(written) :
        /\ written[i] \in chat_log
        /\ Cardinality({t \in chat_log : t.conversation_id = written[i].conversation_id})
               = Len(TurnsOf(written[i].conversation_id))

\* the one log the events of a group, of a room, of a direct chat belong to
ConversationOf(source) ==
    CASE source.type = "group" -> source.group_id
      [] source.type = "room" -> source.room_id
      [] OTHER -> source.user_id

\* the pair of messages a group turn is loaded as
GroupTurnMessages(w) ==
    << [role |-> "user", content |-> w.user_name \o <<":", " ">> \o w.user],
       [role |-> "assistant", content |-> w.assistant] >>

\* h contains the two messages m, one after the other
HasTurn(h, m) == \E k \in 1..(Len(h) - 1) : h[k] = m[1] /\ h[k + 1] = m[2]

\* C15: every turn is persisted under the id of the group (room, direct chat)
\* of its event whichever member sent it; the history loaded for a group
\* contains the turns persisted by each of its members; and the history loaded
\* for a conversation id holds turns of that conversation only.
C15_GroupSharesConversation ==
    /\ \A p \in Procs : \A i \in 1..Len(ops[p]) :
          ops[p][i].op = "put_turn" =>
              ops[p][i].item.conversation_id = ConversationOf(event[p].source)
    /\ \A i \in 1..Len(written) :
          written[i].group_id # None =>
              HasTurn(History(chat_log, written[i].group_id), GroupTurnMessages(written[i]))
    /\ \A i \in 1..Len(written) :
          LET cid == written[i].conversation_id
              own == {t \in chat_log : t.conversation_id = cid}
          IN  /\ Len(History(chat_log, cid)) = 2 * Cardinality(own)
              /\ \A k \in 1..Cardinality(own) :
                    \E t \in own : History(chat_log, cid)[2 * k].content = t.assistant

\* the sender's profile lookup raised
ProfileLookupFailed(p) ==
    \E i \in 1..Len(ops[p]) : ops[p][i].op = "get_profile" /\ ops[p][i].out # "ok"

\* C16: when the sender's profile lookup fails the request does not fail: the
\* display name is "Unknown" and the event goes on through the user save
\* (name "Unknown"), the history load and the generation, and after a
\* successful generation through the persist call (turn named "Unknown") and
\* the reply.
C16_ProfileLookupFailure ==
    \A p \in Procs :
        (Done(p) /\ ProfileLookupFailed(p)) =>
            /\ locals[p].user_name = Unknown
            /\ HasOp(p, "put_user")
            /\ OpsOf(p, "put_user")[1].item.user_name = Unknown
            /\ HasOp(p, "query")
            /\ HasOp(p, "generate")
            /\ GenerationSucceeded(p) =>
                  /\ HasOp(p, "put_turn")
                  /\ OpsOf(p, "put_turn")[1].item.user_name = Unknown
                  /\ \E i \in 1..Len(ops[p]) : IsPrimary(ops[p][i])

\* C19: the reply API is invoked at most once with the reply token of an
\* event, on every path.
C19_ReplyTokenUsedOnce ==
    \A p \in Procs : \A tok \in 1..invocations :
        Cardinality({i \in 1..Len(ops[p]) : ops[p][i].op = "reply" /\ ops[p][i].token = tok}) <= 1

RecordsOf(tb, uid) == {r \in tb : r.user_id = uid}

\* C17 as claimed, its first half: after any sequence of messages every sender
\* that sent a message has a user record.
C17_EverySenderHasRecord ==
    \A p \in Procs :
        (Done(p) /\ Handled(p)) => RecordsOf(user_info, event[p].source.user_id) # {}

\* the invocation p makes its put_item call on user_info in this step
SavesUser(p) == pc[p] = "save_user_info" /\ pc'[p] # "save_user_info"

\* C17 as amended: a message that passes preprocessing upserts its sender's
\* record when the put succeeds, last write wins: after the call the sender
\* has exactly one record, with the display name of this call, and the records
\* of other senders are as before; a failed put and every other step leave
\* the table as it is.
C17_UpsertLastWriteWins ==
    [][ /\ \A p \in Procs :
              SavesUser(p) =>
                  LET uid == event[p].source.user_id
                      call == ops'[p][Len(ops'[p])]
                  IN  IF call.out = "ok"
                      THEN /\ Cardinality(RecordsOf(user_info', uid)) = 1
                           /\ \A r \in RecordsOf(user_info', uid) :
                                 r.user_name = locals[p].user_name
                           /\ \A u \in Users \ {uid} :
                                 RecordsOf(user_info', u) = RecordsOf(user_info, u)
                      ELSE user_info' = user_info
        /\ (\A p \in Procs : ~SavesUser(p)) => user_info' = user_info ]_vars

C17_Witness ==
    /\ \A p \in Procs :
          /\ event[p].source.user_id = "U1"
          /\ HasOp(p, "put_user")
          /\ OpsOf(p, "put_user")[1].out = "ok"
    /\ OpsOf(1, "put_user")[1].item.user_name = <<"A">>
    /\ OpsOf(2, "put_user")[1].item.user_name = <<"B">>
    /\ \E r \in user_info : r.user_id = "U1" /\ r.user_name = <<"A">>
    /\ Cardinality(user_info) = 1

\* the stored turns a load of the conversation reads, oldest first
StoredTurns(cid) == Reverse(Query(chat_log, cid, 20))

\* C18: a history load expands each stored turn to exactly two entries, a user
\* entry and then an assistant entry, and the user entry is "<display name>: "
\* followed by the user text if the turn carries a group id, the bare user
\* text if it does not (direct chats and rooms).
C18_HistoryExpansion ==
    \A t \in chat_log :
        LET items == StoredTurns(t.conversation_id)
            h == History(chat_log, t.conversation_id)
        IN  /\ Len(h) = 2 * Len(items)
            /\ \A k \in 1..Len(items) :
                  /\ h[2 * k - 1].role = "user"
                  /\ h[2 * k].role = "assistant"
                  /\ h[2 * k].content = items[k].assistant
                  /\ items[k].group_id # None =>
                        h[2 * k - 1].content = items[k].user_name \o <<":", " ">> \o items[k].user
                  /\ items[k].group_id = None => h[2 * k - 1].content = items[k].user

\* a member of the group has loaded the turn of the other member
C18_Witness ==
    \E p \in Procs :
        /\ event[p].source.type = "group"
        /\ event[p].source.user_id = "U2"
        /\ HasOp(p, "generate")
        /\ OpsOf(p, "generate")[1].messages =
              << [role |-> "system", content |-> PersonaText],
                 [role |-> "user", content |-> <<"A", ":", " ", "h">>],
                 [role |-> "assistant", content |-> <<Run("a", 1)>>],
                 [role |-> "user", content |-> <<"h">>] >>

\* the turn the invocation has stored, if its put succeeded
StoredBy(p) ==
    {ops[p][i].item : i \in {j \in 1..Len(ops[p]) :
                                ops[p][j].op = "put_turn" /\ ops[p][j].out = "ok"}}

\* the pair of messages a stored turn is loaded as
TurnMessages(w) ==
    IF w.group_id # None THEN GroupTurnMessages(w)
    ELSE << [role |-> "user", content |-> w.user],
            [role |-> "assistant", content |-> w.assistant] >>

\* C20: when the delivery of the generated reply fails after the turn was
\* stored, the turn is not rolled back: it stays in the chat log, with the
\* user text and the whole generated reply, and a load of the conversation
\* returns it.
C20_NoRollback ==
    \A p \in Procs : \A w \in StoredBy(p) :
        (Done(p) /\ SilentFailed(p) /\ IsPrimary(LastReply(p))) =>
            /\ w.user = locals[p].user_message
            /\ w.assistant = locals[p].ai_resp
            /\ w \in chat_log
            /\ HasTurn(History(chat_log, w.conversation_id), TurnMessages(w))

====
